---- MODULE Spec2Model ----
(***************************************************************************)
(* A model of the quote-request server (src/server.js): the JSON file that *)
(* holds the collection, the two rate limiters, the validation chain of    *)
(* POST /api/quotes, the six API handlers and the detached mail            *)
(* notification.                                                           *)
(*                                                                         *)
(* Every handler does its file I/O with readJsonSync / writeJsonSync, so a *)
(* handler runs to completion on the event loop before the next request is *)
(* looked at: one action per handler.  Only the mail delivery started by   *)
(* sendQuoteNotification outlives the handler that started it.             *)
(*                                                                         *)
(* Strings the code looks into (trim, length, regular expressions, lower-  *)
(* casing) are sequences of one-character strings; strings it only         *)
(* compares (status, sortBy, order) are plain strings.                     *)
(***************************************************************************)
EXTENDS Integers, Sequences, FiniteSets, TLC

VARIABLES
    disk,       \* data/quotes.json: [valid |-> it parses, quotes |-> the array]
    now,        \* the wall clock read by new Date()
    nextId,     \* the next identifier uuidv4() hands out
    hits,       \* limiter's store: requests counted per tracked source
    quoteHits,  \* quoteLimiter's store: submissions counted per tracked source
    mail,       \* deliveries started by sendQuoteNotification, by quote id
    last,       \* the last exchange: the request, what its file accesses met
                \* (io), the response, and a bit n that tells it from the one before
    window,     \* what each tracked source has sent since the window of
                \* quoteLimiter began: n, the number of its submissions, and
                \* refused, whether limiter refused one of them
    panel       \* the admin page: quotes is the list AdminPanel keeps
                \* (this.quotes), table the rows renderQuotes has put on the
                \* page, alert the last message of showAlert, loading
                \* whether the GET /api/quotes of a refresh is on its way

vars == <<disk, now, nextId, hits, quoteHits, mail, last, window, panel>>

----------------------------------------------------------------------------
(* Bounds of the model.                                                    *)

\* identifiers uuidv4() hands out in one behaviour
MaxIds == 2
\* last value of the wall clock
MaxClock == 1
\* blanks put around a padded input string
MaxPad == 1

----------------------------------------------------------------------------
(* Characters and strings.                                                 *)

LowerSeq == <<"a","b","c","d","e","f","g","h","i","j","k","l","m",
              "n","o","p","q","r","s","t","u","v","w","x","y","z">>
UpperSeq == <<"A","B","C","D","E","F","G","H","I","J","K","L","M",
              "N","O","P","Q","R","S","T","U","V","W","X","Y","Z">>
Lower == {LowerSeq[i] : i \in 1..26}
Upper == {UpperSeq[i] : i \in 1..26}
Letter == Lower \cup Upper
Digit == {"0","1","2","3","4","5","6","7","8","9"}
\* the characters JavaScript's \s matches, among those the inputs use
Space == {" ", "\t"}

\* the value of a field the request body does not have (undefined)
Absent == <<"<undefined>">>

\* n copies of the character c
Rep(c, n) == [i \in 1..n |-> c]

\* String.prototype.toLowerCase, one character
ToLowerChar(c) ==
    IF c \in Upper
    THEN LowerSeq[CHOOSE i \in 1..26 : UpperSeq[i] = c]
    ELSE c

ToLower(s) == [i \in 1..Len(s) |-> ToLowerChar(s[i])]

\* toString() of express-validator: undefined becomes the empty string
ToStr(v) == IF v = Absent THEN <<>> ELSE v

\* validator.js ltrim(str): the white space at the start is removed
RECURSIVE ltrim(_)
ltrim(s) == IF s # <<>> /\ s[1] \in Space THEN ltrim(Tail(s)) ELSE s

\* validator.js rtrim(str): the white space at the end is removed
RECURSIVE rtrim(_)
rtrim(s) ==
    IF s # <<>> /\ s[Len(s)] \in Space THEN rtrim(SubSeq(s, 1, Len(s) - 1)) ELSE s

\* validator.js trim(str)
trim(s) == rtrim(ltrim(s))

\* validator.js isLength(str, {min, max}); the inputs hold no surrogate pairs
isLength(s, min, max) == Len(s) >= min /\ Len(s) <= max

\* .matches(/^[a-zA-Z\s]+$/): one or more letters and white space, nothing else
matchesLettersAndSpaces(s) ==
    Len(s) >= 1 /\ \A i \in 1..Len(s) : s[i] \in Letter \cup Space

\* the pieces of s between the occurrences of the character c: s.split(c)
RECURSIVE split(_, _)
split(s, c) ==
    LET at == {i \in 1..Len(s) : s[i] = c}
    IN  IF at = {} THEN <<s>>
        ELSE LET k == CHOOSE i \in at : \A j \in at : i <= j
             IN  <<SubSeq(s, 1, k - 1)>> \o split(SubSeq(s, k + 1, Len(s)), c)

----------------------------------------------------------------------------
(* The closed sets of the validation chain and of the status check.        *)

pt_website ==
    <<"w","e","b","s","i","t","e">>

pt_ecommerce ==
    <<"e","c","o","m","m","e","r","c","e">>

pt_webapp ==
    <<"w","e","b","a","p","p">>

pt_mobile ==
    <<"m","o","b","i","l","e">>

pt_other ==
    <<"o","t","h","e","r">>

bg_under5k ==
    <<"u","n","d","e","r","-","5","k">>

bg_5k10k ==
    <<"5","k","-","1","0","k">>

bg_10k25k ==
    <<"1","0","k","-","2","5","k">>

bg_25k50k ==
    <<"2","5","k","-","5","0","k">>

bg_over50k ==
    <<"o","v","e","r","-","5","0","k">>

tl_asap ==
    <<"a","s","a","p">>

tl_1month ==
    <<"1","-","m","o","n","t","h">>

tl_23months ==
    <<"2","-","3","-","m","o","n","t","h","s">>

tl_36months ==
    <<"3","-","6","-","m","o","n","t","h","s">>

tl_flexible ==
    <<"f","l","e","x","i","b","l","e">>


ProjectTypes == {pt_website, pt_ecommerce, pt_webapp, pt_mobile, pt_other}
Budgets == {bg_under5k, bg_5k10k, bg_10k25k, bg_25k50k, bg_over50k}
Timelines == {tl_asap, tl_1month, tl_23months, tl_36months, tl_flexible}
Statuses == {"new", "reviewed", "contacted", "quoted", "accepted", "rejected"}

NameMin == 2
NameMax == 100
CompanyMax == 100
DescriptionMin == 10
DescriptionMax == 1000

----------------------------------------------------------------------------
(* validator.js, as far as the characters of the inputs reach: letters,    *)
(* digits, blanks and the punctuation named below.                         *)

\* characters of an unquoted local part (emailUserPart of isEmail.js), among
\* those the inputs use
UserChar == Letter \cup Digit \cup {"+", "-", "_"}

\* characters of a domain label: letters, digits and hyphen (underscores are
\* refused by default)
LabelChar == Letter \cup Digit \cup {"-"}

\* isFQDN(str) with its default options (a top-level domain is required)
isFQDN(s) ==
    LET parts == split(s, ".")
        tld == parts[Len(parts)]
        plainTld == Len(tld) >= 2 /\ \A i \in 1..Len(tld) : tld[i] \in Letter
        punyTld == /\ Len(tld) >= 4
                   /\ ToLowerChar(tld[1]) = "x" /\ ToLowerChar(tld[2]) = "n"
                   /\ \A i \in 3..Len(tld) : tld[i] \in LabelChar
    IN  /\ Len(parts) >= 2
        /\ plainTld \/ punyTld
        /\ \A k \in 1..Len(parts) :
              /\ Len(parts[k]) >= 1 /\ Len(parts[k]) <= 63
              /\ \A i \in 1..Len(parts[k]) : parts[k][i] \in LabelChar
              /\ parts[k][1] # "-" /\ parts[k][Len(parts[k])] # "-"

\* isEmail(str) with its default options: the domain is what follows the last
\* at sign, the local part what precedes it
isEmail(s) ==
    LET at == {i \in 1..Len(s) : s[i] = "@"}
        k == CHOOSE i \in at : \A j \in at : j <= i
        user == SubSeq(s, 1, k - 1)
        domain == SubSeq(s, k + 1, Len(s))
        userParts == split(user, ".")
    IN  /\ at # {}
        /\ Len(user) <= 64 /\ Len(domain) <= 254
        /\ isFQDN(domain)
        /\ \A p \in 1..Len(userParts) :
              /\ Len(userParts[p]) >= 1
              /\ \A i \in 1..Len(userParts[p]) : userParts[p][i] \in UserChar

\* normalizeEmail(email) with its default options, for an address at a domain
\* that has no provider rule (not gmail, icloud, outlook, yahoo or yandex):
\* the domain and the local part are lower-cased
normalizeEmail(s) == ToLower(s)

\* isMobilePhone(str, any) on strings of plus signs, digits and letters: the
\* North American shape, an optional +1 or 1 and ten digits whose first and fourth
\* are 2..9 (the inputs hold no digit string of another country's shape)
isMobilePhone(s) ==
    LET body == IF Len(s) >= 2 /\ s[1] = "+" /\ s[2] = "1" THEN SubSeq(s, 3, Len(s))
                ELSE IF Len(s) = 11 /\ s[1] = "1" THEN SubSeq(s, 2, Len(s))
                ELSE s
    IN  /\ Len(body) = 10
        /\ \A i \in 1..10 : body[i] \in Digit
        /\ body[1] \notin {"0", "1"}
        /\ body[4] \notin {"0", "1"}

----------------------------------------------------------------------------
(* The validation chain of POST /api/quotes.  A request body is a record   *)
(* of the eight submitted fields, each a string or Absent.                 *)

Fields == <<"name", "email", "phone", "company",
            "projectType", "budget", "timeline", "description">>

\* sanitize with the .trim() of the name chain left out
sanitize_NameUntrimmed(body) ==
    [name        |-> ToStr(body.name),
     email       |-> normalizeEmail(trim(ToStr(body.email))),
     phone       |-> trim(ToStr(body.phone)),
     company     |-> IF body.company = Absent THEN Absent ELSE trim(body.company),
     projectType |-> trim(ToStr(body.projectType)),
     budget      |-> trim(ToStr(body.budget)),
     timeline    |-> trim(ToStr(body.timeline)),
     description |-> trim(ToStr(body.description))]

\* the value each chain leaves in req.body: .trim() everywhere, then
\* .normalizeEmail() on email; .optional() skips the chain of an absent company
sanitize(body) ==
    [name        |-> trim(ToStr(body.name)),
     email       |-> normalizeEmail(trim(ToStr(body.email))),
     phone       |-> trim(ToStr(body.phone)),
     company     |-> IF body.company = Absent THEN Absent ELSE trim(body.company),
     projectType |-> trim(ToStr(body.projectType)),
     budget      |-> trim(ToStr(body.budget)),
     timeline    |-> trim(ToStr(body.timeline)),
     description |-> trim(ToStr(body.description))]

\* one entry of errors.array() when the check fails, none when it passes
Check(ok, field, msg) ==
    IF ok THEN <<>> ELSE <<[field |-> field, msg |-> msg]>>

nameLengthOk(v) == isLength(v, NameMin, NameMax)
companyLengthOk(v) == isLength(v, 0, CompanyMax)

\* descriptionLengthOk with the upper end left out
descriptionLengthOk_Exclusive(v) == isLength(v, DescriptionMin, DescriptionMax - 1)

descriptionLengthOk(v) == isLength(v, DescriptionMin, DescriptionMax)

\* validateQuote that stops at the first failed check
validateQuote_FirstOnly(body) ==
    LET name == trim(ToStr(body.name))
        all == Check(nameLengthOk(name), "name",
                     "Name must be between 2 and 100 characters")
               \o Check(matchesLettersAndSpaces(name), "name",
                     "Name can only contain letters and spaces")
               \o Check(isEmail(trim(ToStr(body.email))), "email",
                     "Please provide a valid email address")
               \o Check(isMobilePhone(trim(ToStr(body.phone))), "phone",
                     "Please provide a valid phone number")
               \o Check(body.company = Absent \/ companyLengthOk(trim(body.company)),
                     "company", "Company name must be less than 100 characters")
               \o Check(trim(ToStr(body.projectType)) \in ProjectTypes, "projectType",
                     "Please select a valid project type")
               \o Check(trim(ToStr(body.budget)) \in Budgets, "budget",
                     "Please select a valid budget range")
               \o Check(trim(ToStr(body.timeline)) \in Timelines, "timeline",
                     "Please select a valid timeline")
               \o Check(descriptionLengthOk(trim(ToStr(body.description))),
                     "description",
                     "Description must be between 10 and 1000 characters")
    IN  IF all = <<>> THEN <<>> ELSE <<all[1]>>

\* validationResult(req).array(): the failed checks, in the order of the chains
validateQuote(body) ==
    LET name == trim(ToStr(body.name))
        email == trim(ToStr(body.email))
        phone == trim(ToStr(body.phone))
    IN  Check(nameLengthOk(name), "name",
              "Name must be between 2 and 100 characters")
        \o Check(matchesLettersAndSpaces(name), "name",
              "Name can only contain letters and spaces")
        \o Check(isEmail(email), "email",
              "Please provide a valid email address")
        \o Check(isMobilePhone(phone), "phone",
              "Please provide a valid phone number")
        \o Check(body.company = Absent \/ companyLengthOk(trim(body.company)),
              "company", "Company name must be less than 100 characters")
        \o Check(trim(ToStr(body.projectType)) \in ProjectTypes, "projectType",
              "Please select a valid project type")
        \o Check(trim(ToStr(body.budget)) \in Budgets, "budget",
              "Please select a valid budget range")
        \o Check(trim(ToStr(body.timeline)) \in Timelines, "timeline",
              "Please select a valid timeline")
        \o Check(descriptionLengthOk(trim(ToStr(body.description))),
              "description",
              "Description must be between 10 and 1000 characters")

----------------------------------------------------------------------------
(* Input strings.                                                          *)

JaneRoe ==
    <<"J","a","n","e"," ","R","o","e">>

JaneEmail ==
    <<"j","a","n","e","@","x",".","c","o","m">>

JaneEmailUpper ==
    <<"J","a","n","e","@","X",".","c","o","m">>

\* a North American number: area code 212, exchange 555
JanePhone ==
    <<"+","1","2","1","2","5","5","5","0","1","2","3">>

JaneDescription ==
    <<"N","e","e","d"," ","a"," ","5","-","p","a","g","e"," ","b","r","o",
      "c","h","u","r","e"," ","s","i","t","e"," ","f","o","r"," ","m","y",
      " ","b","a","k","e","r","y">>

Acme ==
    <<"A","c","m","e">>

NewWebsite ==
    <<"n","e","w","-","w","e","b","s","i","t","e">>

Short5 ==
    <<"s","h","o","r","t">>

AnneMarie ==
    <<"A","n","n","e","-","M","a","r","i","e">>

JaneDotRoeEmail ==
    <<"j","a","n","e",".","r","o","e","@","x",".","c","o","m">>

NoAtEmail ==
    <<"j","a","n","e","x",".","c","o","m">>

NoTldEmail ==
    <<"j","a","n","e","@","x">>

NoUserEmail ==
    <<"@","x",".","c","o","m">>

\* the same number in its national form
JanePhoneNational ==
    <<"2","1","2","5","5","5","0","1","2","3">>

Capitalized ==
    <<"W","e","b","s","i","t","e">>

Free ==
    <<"f","r","e","e">>

Never ==
    <<"n","e","v","e","r">>

\* s with n blanks before and after it
Pad(s, n) == Rep(" ", n) \o s \o Rep(" ", n)


----------------------------------------------------------------------------
(* The record store: data/quotes.json.                                     *)

\* the outcomes of fs.writeJsonSync: the file is replaced; the file cannot be
\* opened and stays as it is; the write fails after the file was truncated
WriteOutcomes == {"ok", "refused", "partial"}

\* fs.readJsonSync(DATA_FILE) returns: this read goes through (rd) and the
\* file parses
readable(rd) == rd /\ disk.valid

\* readQuotes that returns the collection as it was before any update of a
\* status, as a reader would that took its copy before the writers wrote
readQuotes_Stale(rd) ==
    IF readable(rd)
    THEN [i \in 1..Len(disk.quotes) |->
            [disk.quotes[i] EXCEPT !.status = "new",
                                   !.updatedAt = disk.quotes[i].createdAt]]
    ELSE <<>>

\* readQuotes(): the parsed array, or [] when readJsonSync throws
readQuotes(rd) == IF readable(rd) THEN disk.quotes ELSE <<>>

\* the value writeQuotes(quotes) returns
writeQuotes(wr) == wr = "ok"

\* the file writeQuotes(quotes) leaves behind
written(quotes, wr) ==
    CASE wr = "ok" -> [valid |-> TRUE, quotes |-> quotes]
      [] wr = "refused" -> disk
      [] wr = "partial" -> [valid |-> FALSE, quotes |-> <<>>]

\* quotes.findIndex(q => q.id === id), 0 standing for -1
findIndex(quotes, id) ==
    LET at == {i \in 1..Len(quotes) : quotes[i].id = id}
    IN  IF at = {} THEN 0 ELSE CHOOSE i \in at : \A j \in at : i <= j

\* splice given the position as if it were the zero-based index: the element
\* after the one found is removed
splice_OffByOne(quotes, i) == SubSeq(quotes, 1, i) \o SubSeq(quotes, i + 2, Len(quotes))

\* quotes.splice(i, 1)
splice(quotes, i) == SubSeq(quotes, 1, i - 1) \o SubSeq(quotes, i + 1, Len(quotes))

\* what a handler may meet: ms, the time that passes between two readings of
\* the clock; rd, whether a read goes through; wr, the outcome of a write
Faults == [ms |-> {0, 1}, rd |-> BOOLEAN, wr |-> WriteOutcomes]

\* a clock that stands still and a file system that works
NoFaults == [ms |-> {0}, rd |-> {TRUE}, wr |-> {"ok"}]

\* what the file accesses of a handler met: rd is ok or failed, wr is one of
\* WriteOutcomes, and none stands for an access the handler did not make
Io(rd, wr) == [rd |-> rd, wr |-> wr]
NoIo == Io("none", "none")
Read(rd) == IF readable(rd) THEN "ok" ELSE "failed"

\* n alternates from one exchange to the next, so that a request that is
\* answered exactly like the one before it is still a step
Exchange(req, io, res) == [n |-> 1 - last.n, req |-> req, io |-> io, res |-> res]

----------------------------------------------------------------------------
(* The rate limiters.  A source outside Tracked sends its first request of *)
(* the window: no limiter refuses it and its count is never looked at      *)
(* again, so it is not kept.                                               *)

Tracked == {"client"}
Untracked == "visitor"

\* max of limiter and of quoteLimiter
LimiterMax == 100
QuoteLimiterMax == 5

\* the store's count after one more request, kept up to max + 1
increment(store, src, max) ==
    IF src \in Tracked
    THEN [store EXCEPT ![src] = IF @ > max THEN @ ELSE @ + 1]
    ELSE store

\* overLimit that refuses the request that reaches max
overLimit_AtMax(store, src, max) == src \in Tracked /\ store[src] + 1 >= max

\* the request is over the limit: its count, itself included, exceeds max
overLimit(store, src, max) == src \in Tracked /\ store[src] + 1 > max

\* app.use(limiter): counts the request and answers 429 or passes it on
limiter(src, req, next) ==
    /\ hits' = increment(hits, src, LimiterMax)
    /\ IF overLimit(hits, src, LimiterMax)
       THEN /\ last' = Exchange(req, NoIo, [code |-> 429, by |-> "limiter"])
            /\ UNCHANGED <<disk, now, nextId, quoteHits, mail>>
       ELSE next

\* quoteLimiter, the first middleware of POST /api/quotes
quoteLimiter(src, req, next) ==
    /\ quoteHits' = increment(quoteHits, src, QuoteLimiterMax)
    /\ IF overLimit(quoteHits, src, QuoteLimiterMax)
       THEN /\ last' = Exchange(req, NoIo, [code |-> 429, by |-> "quoteLimiter"])
            /\ UNCHANGED <<disk, now, nextId, mail>>
       ELSE next

----------------------------------------------------------------------------
(* The handlers.  env holds what a handler may meet; rd and wr are the     *)
(* outcomes of the file accesses it makes.                                 *)

\* the identifiers uuidv4() hands out
Ids == 1..MaxIds

\* newQuote with one identifier for every record
newQuote_SameId(id, b, created, updated) ==
    [id          |-> 1,
     name        |-> b.name,
     email       |-> b.email,
     phone       |-> b.phone,
     company     |-> IF b.company \in {Absent, <<>>} THEN <<>> ELSE b.company,
     projectType |-> b.projectType,
     budget      |-> b.budget,
     timeline    |-> b.timeline,
     description |-> b.description,
     status      |-> "new",
     createdAt   |-> created,
     updatedAt   |-> updated]

\* the record POST /api/quotes builds from the sanitized body; the clock is
\* read twice, created and updated being the two readings
newQuote(id, b, created, updated) ==
    [id          |-> id,
     name        |-> b.name,
     email       |-> b.email,
     phone       |-> b.phone,
     company     |-> IF b.company \in {Absent, <<>>} THEN <<>> ELSE b.company,
     projectType |-> b.projectType,
     budget      |-> b.budget,
     timeline    |-> b.timeline,
     description |-> b.description,
     status      |-> "new",
     createdAt   |-> created,
     updatedAt   |-> updated]

\* sendQuoteNotification(newQuote), up to its await: the delivery is handed to
\* the transporter and the caller goes on
sendQuoteNotification(q) == [mail EXCEPT ![q.id] = "pending"]

\* app.post('/api/quotes') after the limiters; ms is the time that passes
\* between the two readings of the clock.  The model hands out the identifiers
\* of Ids and stops the clock at MaxClock.
postQuote(req, env) ==
    LET errors == validateQuote(req.body)
    IN  IF errors # <<>>
        THEN /\ last' = Exchange(req, NoIo, [code |-> 400, errors |-> errors])
             /\ UNCHANGED <<disk, now, nextId, mail>>
        ELSE \E ms \in env.ms, rd \in env.rd, wr \in env.wr :
             LET q == newQuote(nextId, sanitize(req.body), now, now + ms)
                 quotes == Append(readQuotes(rd), q)
             IN  /\ nextId \in Ids
                 /\ now + ms <= MaxClock
                 /\ disk' = written(quotes, wr)
                 /\ now' = now + ms
                 /\ nextId' = nextId + 1
                 /\ IF writeQuotes(wr)
                    THEN /\ mail' = sendQuoteNotification(q)
                         /\ last' = Exchange(req, Io(Read(rd), wr),
                                             [code |-> 201, id |-> q.id])
                    ELSE /\ mail' = mail
                         /\ last' = Exchange(req, Io(Read(rd), wr), [code |-> 500])

\* new Date(a[sortBy]) is a date for the two timestamp fields and an invalid
\* date (NaN) for a sortBy that is no field of the record
isDate(sortBy) == sortBy \in {"createdAt", "updatedAt"}

dateOf(q, sortBy) == IF sortBy = "createdAt" THEN q.createdAt ELSE q.updatedAt

\* compare that takes createdAt when sortBy names no timestamp
compare_FallsBack(a, b, sortBy, order) ==
    IF order = "desc" THEN b.createdAt - a.createdAt
    ELSE a.createdAt - b.createdAt

\* compare that never looks at order
compare_Ascending(a, b, sortBy, order) ==
    IF ~isDate(sortBy) THEN 0
    ELSE dateOf(a, sortBy) - dateOf(b, sortBy)

\* the comparator of filteredQuotes.sort; a NaN difference counts as 0
compare(a, b, sortBy, order) ==
    IF ~isDate(sortBy) THEN 0
    ELSE IF order = "desc" THEN dateOf(b, sortBy) - dateOf(a, sortBy)
    ELSE dateOf(a, sortBy) - dateOf(b, sortBy)

\* Array.prototype.sort, which is stable: x goes before the first element the
\* comparator puts after it
insert(sorted, x, sortBy, order) ==
    LET after == {i \in 1..Len(sorted) : compare(sorted[i], x, sortBy, order) > 0}
        k == IF after = {} THEN Len(sorted) + 1
             ELSE CHOOSE i \in after : \A j \in after : i <= j
    IN  SubSeq(sorted, 1, k - 1) \o <<x>> \o SubSeq(sorted, k, Len(sorted))

RECURSIVE sort(_, _, _)
sort(quotes, sortBy, order) ==
    IF quotes = <<>> THEN <<>>
    ELSE insert(sort(SubSeq(quotes, 1, Len(quotes) - 1), sortBy, order),
                quotes[Len(quotes)], sortBy, order)

\* a query parameter that is not given
NoParam == "<undefined>"
pt_all == <<"a","l","l">>

\* statusFilter that never filters
statusFilter_Off(quotes, status) == quotes

\* if (status && status !== 'all') filter on quote.status === status
statusFilter(quotes, status) ==
    IF status # NoParam /\ status # "" /\ status # "all"
    THEN SelectSeq(quotes, LAMBDA q : q.status = status)
    ELSE quotes

\* if (projectType && projectType !== 'all') filter on quote.projectType
projectTypeFilter(quotes, projectType) ==
    IF projectType # Absent /\ projectType # <<>> /\ projectType # pt_all
    THEN SelectSeq(quotes, LAMBDA q : q.projectType = projectType)
    ELSE quotes

\* the body of the answer of app.get('/api/quotes')
listOf(quotes, status, projectType, sortBy, order) ==
    LET filteredQuotes ==
            sort(projectTypeFilter(statusFilter(quotes, status), projectType),
                 IF sortBy = NoParam THEN "createdAt" ELSE sortBy,
                 IF order = NoParam THEN "desc" ELSE order)
    IN  [code |-> 200, data |-> filteredQuotes, total |-> Len(filteredQuotes)]

\* app.get('/api/quotes')
getQuotes(req, env) ==
    \E rd \in env.rd :
       /\ last' = Exchange(req, Io(Read(rd), "none"),
                           listOf(readQuotes(rd), req.status, req.projectType,
                                  req.sortBy, req.order))
       /\ UNCHANGED <<disk, now, nextId, quoteHits, mail>>

\* app.get('/api/quotes/:id')
getQuote(req, env) ==
    \E rd \in env.rd :
       LET quotes == readQuotes(rd)
           i == findIndex(quotes, req.id)
       IN  /\ last' = Exchange(req, Io(Read(rd), "none"),
                               IF i = 0 THEN [code |-> 404]
                               ELSE [code |-> 200, data |-> quotes[i]])
           /\ UNCHANGED <<disk, now, nextId, quoteHits, mail>>

\* validStatus that lets every status through
validStatus_Any(status) == TRUE

\* validStatus with the list of statuses one entry too long
validStatus_Archived(status) == status \in Statuses \cup {"archived"}

\* the check of the new status in app.patch('/api/quotes/:id/status')
validStatus(status) == status \in Statuses

\* patchStatus that leaves updatedAt as it was
patchStatus_NoRefresh(req, env) ==
    /\ UNCHANGED <<now, nextId, quoteHits, mail>>
    /\ IF ~validStatus(req.status)
       THEN /\ last' = Exchange(req, NoIo, [code |-> 400])
            /\ disk' = disk
       ELSE \E rd \in env.rd :
            LET quotes == readQuotes(rd)
                i == findIndex(quotes, req.id)
                updated == [quotes EXCEPT ![i].status = req.status]
            IN  IF i = 0
                THEN /\ last' = Exchange(req, Io(Read(rd), "none"), [code |-> 404])
                     /\ disk' = disk
                ELSE \E wr \in env.wr :
                     /\ disk' = written(updated, wr)
                     /\ last' = Exchange(req, Io(Read(rd), wr),
                                         IF writeQuotes(wr)
                                         THEN [code |-> 200, data |-> updated[i]]
                                         ELSE [code |-> 500])

\* patchStatus that stamps createdAt as well
patchStatus_Restamps(req, env) ==
    /\ UNCHANGED <<now, nextId, quoteHits, mail>>
    /\ IF ~validStatus(req.status)
       THEN /\ last' = Exchange(req, NoIo, [code |-> 400])
            /\ disk' = disk
       ELSE \E rd \in env.rd :
            LET quotes == readQuotes(rd)
                i == findIndex(quotes, req.id)
                updated == [quotes EXCEPT ![i].status = req.status,
                                          ![i].createdAt = now,
                                          ![i].updatedAt = now]
            IN  IF i = 0
                THEN /\ last' = Exchange(req, Io(Read(rd), "none"), [code |-> 404])
                     /\ disk' = disk
                ELSE \E wr \in env.wr :
                     /\ disk' = written(updated, wr)
                     /\ last' = Exchange(req, Io(Read(rd), wr),
                                         IF writeQuotes(wr)
                                         THEN [code |-> 200, data |-> updated[i]]
                                         ELSE [code |-> 500])

\* app.patch('/api/quotes/:id/status')
patchStatus(req, env) ==
    /\ UNCHANGED <<now, nextId, quoteHits, mail>>
    /\ IF ~validStatus(req.status)
       THEN /\ last' = Exchange(req, NoIo, [code |-> 400])
            /\ disk' = disk
       ELSE \E rd \in env.rd :
            LET quotes == readQuotes(rd)
                i == findIndex(quotes, req.id)
                updated == [quotes EXCEPT ![i].status = req.status,
                                          ![i].updatedAt = now]
            IN  IF i = 0
                THEN /\ last' = Exchange(req, Io(Read(rd), "none"), [code |-> 404])
                     /\ disk' = disk
                ELSE \E wr \in env.wr :
                     /\ disk' = written(updated, wr)
                     /\ last' = Exchange(req, Io(Read(rd), wr),
                                         IF writeQuotes(wr)
                                         THEN [code |-> 200, data |-> updated[i]]
                                         ELSE [code |-> 500])

\* app.delete('/api/quotes/:id')
deleteQuote(req, env) ==
    /\ UNCHANGED <<now, nextId, quoteHits, mail>>
    /\ \E rd \in env.rd :
          LET quotes == readQuotes(rd)
              i == findIndex(quotes, req.id)
          IN  IF i = 0
              THEN /\ last' = Exchange(req, Io(Read(rd), "none"), [code |-> 404])
                   /\ disk' = disk
              ELSE \E wr \in env.wr :
                   /\ disk' = written(splice(quotes, i), wr)
                   /\ last' = Exchange(req, Io(Read(rd), wr),
                                       IF writeQuotes(wr) THEN [code |-> 200]
                                       ELSE [code |-> 500])

\* quotes.filter(q => q.status === status).length
count(quotes, status) == Len(SelectSeq(quotes, LAMBDA q : q.status = status))

\* statsOf with the reviewed bucket counting a misspelt status
statsOf_Misspelt(quotes) ==
    [code |-> 200,
     data |-> [total     |-> Len(quotes),
               new       |-> count(quotes, "new"),
               reviewed  |-> count(quotes, "review"),
               contacted |-> count(quotes, "contacted"),
               quoted    |-> count(quotes, "quoted"),
               accepted  |-> count(quotes, "accepted"),
               rejected  |-> count(quotes, "rejected")]]

\* the body of the answer of app.get('/api/stats')
statsOf(quotes) ==
    [code |-> 200,
     data |-> [total     |-> Len(quotes),
               new       |-> count(quotes, "new"),
               reviewed  |-> count(quotes, "reviewed"),
               contacted |-> count(quotes, "contacted"),
               quoted    |-> count(quotes, "quoted"),
               accepted  |-> count(quotes, "accepted"),
               rejected  |-> count(quotes, "rejected")]]

\* app.get('/api/stats')
getStats(req, env) ==
    \E rd \in env.rd :
       /\ last' = Exchange(req, Io(Read(rd), "none"), statsOf(readQuotes(rd)))
       /\ UNCHANGED <<disk, now, nextId, quoteHits, mail>>

----------------------------------------------------------------------------
(* Requests.                                                               *)

JaneBody ==
    [name |-> JaneRoe, email |-> JaneEmail, phone |-> JanePhone,
     company |-> Absent, projectType |-> pt_website, budget |-> bg_under5k,
     timeline |-> tl_flexible, description |-> JaneDescription]

\* a valid submission the chains rewrite: blanks around the name, capitals in
\* the address
PaddedBody ==
    [name |-> Pad(JaneRoe, MaxPad), email |-> JaneEmailUpper, phone |-> JanePhone,
     company |-> Acme, projectType |-> pt_webapp, budget |-> bg_5k10k,
     timeline |-> tl_asap, description |-> Rep("x", DescriptionMin)]

\* a description of 5 characters
ShortBody == [JaneBody EXCEPT !.description = Short5]

\* two offending fields
WrongBody == [JaneBody EXCEPT !.name = <<"J">>, !.projectType = NewWebsite]

Bodies == {JaneBody, PaddedBody, ShortBody, WrongBody}

\* every length at the upper end of its range
LongestBody ==
    [JaneBody EXCEPT !.name = Rep("a", NameMax), !.company = Rep("c", CompanyMax),
                     !.description = Rep("x", DescriptionMax)]

\* every length at the lower end of its range
ShortestBody ==
    [JaneBody EXCEPT !.name = <<"J", "o">>, !.company = <<>>,
                     !.description = Rep("x", DescriptionMin)]

\* the values each field is sent to try the validation chain: in the range, at
\* its ends, one past them, padded, missing, and of the wrong kind
NameInputs ==
    {<<"J">>, <<"J", "o">>, <<"J", " ", "R">>, Rep("a", NameMax),
     Rep("a", NameMax + 1), Pad(JaneRoe, MaxPad), Pad(<<"J">>, MaxPad),
     Pad(Rep("a", NameMax), MaxPad), <<"J", "2">>, AnneMarie,
     Rep(" ", MaxPad + 1), <<>>, Absent}

EmailInputs ==
    {JaneEmailUpper, JaneDotRoeEmail, Pad(JaneEmail, MaxPad), NoAtEmail,
     NoTldEmail, NoUserEmail, <<>>, Absent}

PhoneInputs ==
    {JanePhoneNational, Pad(JanePhone, MaxPad), <<"a", "b", "c">>, <<"1", "2">>,
     <<>>, Absent}

CompanyInputs ==
    {<<>>, Acme, Pad(Acme, MaxPad), Rep("c", CompanyMax), Rep("c", CompanyMax + 1),
     Pad(Rep("c", CompanyMax), MaxPad), Rep(" ", MaxPad + 1)}

ProjectTypeInputs ==
    ProjectTypes \cup {NewWebsite, Capitalized, pt_all, Pad(pt_mobile, MaxPad),
                       <<>>, Absent}

BudgetInputs == Budgets \cup {Free, Pad(bg_over50k, MaxPad), Absent}

TimelineInputs == Timelines \cup {Never, Pad(tl_asap, MaxPad), Absent}

DescriptionInputs ==
    {Short5, Rep("x", DescriptionMin - 1), Rep("x", DescriptionMin),
     Rep("x", DescriptionMax), Rep("x", DescriptionMax + 1),
     Pad(Rep("x", DescriptionMin - 1), MaxPad),
     Pad(Rep("x", DescriptionMax), MaxPad), Rep(" ", DescriptionMin), <<>>, Absent}

\* JaneBody with one field replaced, and the bodies above
ValidatorBodies ==
    {[JaneBody EXCEPT !.name = v] : v \in NameInputs}
    \cup {[JaneBody EXCEPT !.email = v] : v \in EmailInputs}
    \cup {[JaneBody EXCEPT !.phone = v] : v \in PhoneInputs}
    \cup {[JaneBody EXCEPT !.company = v] : v \in CompanyInputs}
    \cup {[JaneBody EXCEPT !.projectType = v] : v \in ProjectTypeInputs}
    \cup {[JaneBody EXCEPT !.budget = v] : v \in BudgetInputs}
    \cup {[JaneBody EXCEPT !.timeline = v] : v \in TimelineInputs}
    \cup {[JaneBody EXCEPT !.description = v] : v \in DescriptionInputs}
    \cup {LongestBody, ShortestBody, PaddedBody, WrongBody}

\* the submissions of the source the limiters keep a count for
RateBodies == {JaneBody, ShortBody}

\* the values PATCH is sent: one of the enumeration and one outside it
StatusInputs == {"reviewed", "archived"}

\* every status of the enumeration and one outside it
AllStatusInputs == Statuses \cup {"archived"}

\* the queries GET /api/quotes is sent: <<status, projectType, sortBy, order>>
Queries ==
    {<<NoParam, Absent, NoParam, NoParam>>,
     <<"new", Absent, NoParam, NoParam>>,
     <<"all", pt_website, "updatedAt", "asc">>,
     <<"reviewed", pt_webapp, "bogus", NoParam>>}

\* queries whose sortBy names no field of the records
UnknownSortQueries ==
    {<<NoParam, Absent, "bogus", "asc">>,
     <<NoParam, Absent, "bogus", "desc">>,
     <<"new", Absent, "bogus", "desc">>,
     <<"all", pt_webapp, "priority", "asc">>}

\* the window of a tracked source after one more submission, answered res:
\* n is kept up to max + 1, like the counts of the limiters
submitted(src, res) ==
    IF src \in Tracked
    THEN [window EXCEPT ![src] =
            [n |-> IF @.n > QuoteLimiterMax THEN @.n ELSE @.n + 1,
             refused |-> @.refused \/ (res.code = 429 /\ res.by = "limiter")]]
    ELSE window

\* POST /api/quotes
Submit(src, body, env) ==
    LET req == [op |-> "create", src |-> src, body |-> body]
    IN  /\ limiter(src, req, quoteLimiter(src, req, postQuote(req, env)))
        /\ window' = submitted(src, last'.res)
        /\ UNCHANGED panel

\* GET /api/quotes
List(src, query, env) ==
    LET req == [op |-> "list", src |-> src, status |-> query[1],
                projectType |-> query[2], sortBy |-> query[3], order |-> query[4]]
    IN  /\ limiter(src, req, getQuotes(req, env))
        /\ UNCHANGED <<window, panel>>

\* GET /api/quotes/:id
Get(src, id, env) ==
    LET req == [op |-> "get", src |-> src, id |-> id]
    IN  /\ limiter(src, req, getQuote(req, env))
        /\ UNCHANGED <<window, panel>>

\* PATCH /api/quotes/:id/status
UpdateStatus(src, id, status, env) ==
    LET req == [op |-> "patch", src |-> src, id |-> id, status |-> status]
    IN  /\ limiter(src, req, patchStatus(req, env))
        /\ UNCHANGED <<window, panel>>

\* DELETE /api/quotes/:id
Delete(src, id, env) ==
    LET req == [op |-> "delete", src |-> src, id |-> id]
    IN  /\ limiter(src, req, deleteQuote(req, env))
        /\ UNCHANGED <<window, panel>>

\* GET /api/stats
Stats(src, env) ==
    LET req == [op |-> "stats", src |-> src]
    IN  /\ limiter(src, req, getStats(req, env))
        /\ UNCHANGED <<window, panel>>

\* a request no API route takes (a page, a script): only limiter counts it
Static(src) ==
    LET req == [op |-> "static", src |-> src]
    IN  /\ limiter(src, req, /\ last' = Exchange(req, NoIo, [code |-> 200])
                             /\ UNCHANGED <<disk, now, nextId, quoteHits, mail>>)
        /\ UNCHANGED <<window, panel>>

----------------------------------------------------------------------------
(* The admin page (class AdminPanel), as far as it talks to the server.    *)

\* the messages of showAlert
DeletedAlert == "All quote requests deleted successfully"
RefreshedAlert == "Data refreshed successfully!"
UpdatedAlert == "Quote status updated"
LocalOnlyAlert == "Quote status updated (local only)"

\* AdminPanel.loadQuotes() with no filter chosen: GET /api/quotes without
\* parameters; the list is kept, and when the request fails the list of
\* localStorage, which nothing fills, is kept instead
loadQuotes(src, env) ==
    LET req == [op |-> "list", src |-> src, status |-> NoParam,
                projectType |-> Absent, sortBy |-> NoParam, order |-> NoParam]
    IN  /\ limiter(src, req, getQuotes(req, env))
        /\ panel' = [panel EXCEPT !.quotes = IF last'.res.code = 200
                                             THEN last'.res.data ELSE <<>>]
        /\ UNCHANGED window

\* AdminPanel.confirmDeleteAll() with the question answered yes: the key of
\* localStorage is removed, the list is emptied and updateStats() sends
\* GET /api/stats; no other request is sent
confirmDeleteAll(src, env) ==
    LET req == [op |-> "stats", src |-> src, from |-> "confirmDeleteAll"]
    IN  /\ panel.quotes # <<>>
        /\ limiter(src, req, getStats(req, env))
        /\ panel' = [panel EXCEPT !.quotes = <<>>, !.table = <<>>,
                                  !.alert = DeletedAlert]
        /\ UNCHANGED window

\* the values of the status selector of a row, the empty first option left
\* out: updateStatus returns at once for it
SelectorStatuses == {"new", "in-progress", "completed", "rejected"}

\* AdminPanel.updateStatus(quoteId, newStatus) for a row of the table: the
\* PATCH is sent; answered 200, the list is loaded again and rendered;
\* answered otherwise, apiRequest throws and the catch changes the row of
\* this.quotes, if it has it, and applyFilters loads and renders the list.
\* The reload is taken to be answered, from the file the PATCH left, before
\* any other request.
updateStatus(src, quoteId, newStatus, env) ==
    LET req == [op |-> "patch", src |-> src, id |-> quoteId,
                status |-> newStatus, from |-> "updateStatus"]
        reloaded == listOf(disk'.quotes, NoParam, Absent, NoParam, NoParam).data
    IN  /\ \E k \in 1..Len(panel.table) : panel.table[k].id = quoteId
        /\ limiter(src, req, patchStatus(req, env))
        /\ panel' = IF last'.res.code = 200
                    THEN [panel EXCEPT !.quotes = reloaded, !.table = reloaded,
                                       !.alert = UpdatedAlert]
                    ELSE IF findIndex(panel.quotes, quoteId) # 0
                    THEN [panel EXCEPT !.quotes = reloaded, !.table = reloaded,
                                       !.alert = LocalOnlyAlert]
                    ELSE panel
        /\ UNCHANGED window

\* AdminPanel.refresh(), the callback of its timer: loadQuotes() sends
\* GET /api/quotes and is not awaited, renderQuotes() puts the list the page
\* holds on the page and the success is reported
refresh ==
    /\ ~panel.loading
    /\ panel' = [panel EXCEPT !.loading = TRUE, !.table = panel.quotes,
                              !.alert = RefreshedAlert]
    /\ UNCHANGED <<disk, now, nextId, hits, quoteHits, mail, last, window>>

\* the loadQuotes() that refresh started goes on after its await: the server
\* answers and the list is kept; nothing is rendered
refreshLoaded(src, env) ==
    LET req == [op |-> "list", src |-> src, status |-> NoParam,
                projectType |-> Absent, sortBy |-> NoParam, order |-> NoParam,
                from |-> "refresh"]
    IN  /\ panel.loading
        /\ limiter(src, req, getQuotes(req, env))
        /\ panel' = [panel EXCEPT !.loading = FALSE,
                                  !.quotes = IF last'.res.code = 200
                                             THEN last'.res.data ELSE <<>>]
        /\ UNCHANGED window

----------------------------------------------------------------------------
(* What happens between requests.                                          *)

\* time passes
Tick ==
    /\ now < MaxClock
    /\ now' = now + 1
    /\ UNCHANGED <<disk, nextId, hits, quoteHits, mail, last, window, panel>>

\* transporter.sendMail resolves: two lines are logged
MailSent(id) ==
    /\ mail[id] = "pending"
    /\ mail' = [mail EXCEPT ![id] = "sent"]
    /\ UNCHANGED <<disk, now, nextId, hits, quoteHits, last, window, panel>>

\* MailFailed that hands a failed delivery to the transporter again
MailFailed_Retries(id) ==
    /\ mail[id] \in {"pending", "failed"}
    /\ mail' = [mail EXCEPT ![id] = IF @ = "pending" THEN "failed" ELSE "pending"]
    /\ UNCHANGED <<disk, now, nextId, hits, quoteHits, last, window, panel>>

\* MailFailed that takes the record back out of the file
MailFailed_RollsBack(id) ==
    /\ mail[id] = "pending"
    /\ mail' = [mail EXCEPT ![id] = "failed"]
    /\ disk' = [disk EXCEPT !.quotes = SelectSeq(@, LAMBDA q : q.id # id)]
    /\ UNCHANGED <<now, nextId, hits, quoteHits, last, window, panel>>

\* transporter.sendMail rejects: the error is logged and swallowed
MailFailed(id) ==
    /\ mail[id] = "pending"
    /\ mail' = [mail EXCEPT ![id] = "failed"]
    /\ UNCHANGED <<disk, now, nextId, hits, quoteHits, last, window, panel>>

\* the window of limiter ends: its store forgets every count
LimiterReset ==
    /\ \E s \in Tracked : hits[s] > 0
    /\ hits' = [s \in Tracked |-> 0]
    /\ UNCHANGED <<disk, now, nextId, quoteHits, mail, last, window, panel>>

\* no submission yet in the window of quoteLimiter
NoWindow == [s \in Tracked |-> [n |-> 0, refused |-> FALSE]]

\* the window of quoteLimiter ends
QuoteLimiterReset ==
    /\ window # NoWindow
    /\ quoteHits' = [s \in Tracked |-> 0]
    /\ window' = NoWindow
    /\ UNCHANGED <<disk, now, nextId, hits, mail, last, panel>>

----------------------------------------------------------------------------
(* The server.                                                             *)

NoExchange == [n |-> 0, req |-> [op |-> "none"], io |-> NoIo, res |-> [code |-> 0]]

\* after start-up: the file holds [] (it is created when missing)
Init ==
    /\ disk = [valid |-> TRUE, quotes |-> <<>>]
    /\ now = 0
    /\ nextId = 1
    /\ hits = [s \in Tracked |-> 0]
    /\ quoteHits = [s \in Tracked |-> 0]
    /\ mail = [i \in Ids |-> "none"]
    /\ last = NoExchange
    /\ window = NoWindow
    /\ panel = [quotes |-> <<>>, table |-> <<>>, alert |-> "none",
                loading |-> FALSE]

\* the requests of sources that stay far below both limits, whatever the
\* clock and the file system do
Next ==
    \/ \E body \in Bodies : Submit(Untracked, body, Faults)
    \/ \E query \in Queries : List(Untracked, query, Faults)
    \/ \E id \in Ids : Get(Untracked, id, Faults)
    \/ \E id \in Ids, status \in StatusInputs :
          UpdateStatus(Untracked, id, status, Faults)
    \/ \E id \in Ids : Delete(Untracked, id, Faults)
    \/ Stats(Untracked, Faults)
    \/ Tick
    \/ \E id \in Ids : MailSent(id)
    \/ \E id \in Ids : MailFailed(id)

Spec == Init /\ [][Next]_vars

\* one source, counted by both limiters, that submits and fetches pages while
\* the windows of the limiters begin and end; the clock stands still and the
\* file system works
NextRate ==
    \/ \E src \in Tracked, body \in RateBodies : Submit(src, body, NoFaults)
    \/ \E src \in Tracked : Static(src)
    \/ LimiterReset
    \/ QuoteLimiterReset

SpecRate == Init /\ [][NextRate]_vars

\* one submission after another to the server that has stored nothing yet
NextValidator ==
    \E body \in ValidatorBodies :
       nextId = 1 /\ Submit(Untracked, body, NoFaults)

SpecValidator == Init /\ [][NextValidator]_vars

\* the requests that move records from any status to any status, the file
\* system working
NextStatus ==
    \/ Submit(Untracked, JaneBody, NoFaults)
    \/ \E id \in Ids, status \in AllStatusInputs :
          UpdateStatus(Untracked, id, status, NoFaults)
    \/ \E id \in Ids : Delete(Untracked, id, NoFaults)
    \/ Tick

SpecStatus == Init /\ [][NextStatus]_vars

\* the admin page beside the API: records are submitted, moved and deleted,
\* the page loads the list and its delete-all is confirmed; the file system
\* works
NextAdmin ==
    \/ \E body \in {JaneBody, PaddedBody} : Submit(Untracked, body, NoFaults)
    \/ \E id \in Ids, status \in StatusInputs :
          UpdateStatus(Untracked, id, status, NoFaults)
    \/ \E id \in Ids : Delete(Untracked, id, NoFaults)
    \/ \E query \in Queries : List(Untracked, query, NoFaults)
    \/ Stats(Untracked, NoFaults)
    \/ loadQuotes(Untracked, NoFaults)
    \/ confirmDeleteAll(Untracked, NoFaults)

SpecAdmin == Init /\ [][NextAdmin]_vars

\* the admin at the page while visitors submit: the page is refreshed, the
\* status of a row is changed with its selector, a record is deleted behind
\* the back of the page; the file system works
NextPanel ==
    \/ \E body \in {JaneBody, PaddedBody} : Submit(Untracked, body, NoFaults)
    \/ \E id \in Ids : Delete(Untracked, id, NoFaults)
    \/ \E id \in Ids, status \in SelectorStatuses :
          updateStatus(Untracked, id, status, NoFaults)
    \/ refresh
    \/ refreshLoaded(Untracked, NoFaults)
    \/ Tick

SpecPanel == Init /\ [][NextPanel]_vars

\* lists sorted by a field the records do not have: records are submitted at
\* different times and moved, and listed with such a sortBy; the file system
\* works
NextSort ==
    \/ \E body \in {JaneBody, PaddedBody} : Submit(Untracked, body, NoFaults)
    \/ \E id \in Ids, status \in StatusInputs :
          UpdateStatus(Untracked, id, status, NoFaults)
    \/ \E query \in UnknownSortQueries : List(Untracked, query, NoFaults)
    \/ Tick

SpecSort == Init /\ [][NextSort]_vars

\* the notifications of one source that both limiters count: it submits
\* valid and invalid bodies until it is refused, reads, writes and the clock
\* going as they may, and the deliveries end, sent or failed
NextNotify ==
    \/ \E src \in Tracked, body \in RateBodies : Submit(src, body, Faults)
    \/ \E id \in Ids : MailSent(id)
    \/ \E id \in Ids : MailFailed(id)

SpecNotify == Init /\ [][NextNotify]_vars

----------------------------------------------------------------------------
(* Vocabulary of the properties.                                           *)

\* the step serves a request
Served == last'.n # last.n

\* the eight submitted fields of a record
Submitted(q) ==
    [name |-> q.name, email |-> q.email, phone |-> q.phone, company |-> q.company,
     projectType |-> q.projectType, budget |-> q.budget, timeline |-> q.timeline,
     description |-> q.description]

\* a body as it was sent, a company that was not sent reading as empty
AsSent(body) == [body EXCEPT !.company = IF @ = Absent THEN <<>> ELSE @]

\* a body with the blanks around every field removed and the address in
\* lower case
Normalized(body) ==
    [name        |-> trim(body.name),
     email       |-> ToLower(trim(body.email)),
     phone       |-> trim(body.phone),
     company     |-> IF body.company = Absent THEN <<>> ELSE trim(body.company),
     projectType |-> trim(body.projectType),
     budget      |-> trim(body.budget),
     timeline    |-> trim(body.timeline),
     description |-> trim(body.description)]

RecordFields ==
    {"id", "name", "email", "phone", "company", "projectType", "budget",
     "timeline", "description", "status", "createdAt", "updatedAt"}

\* the records of the file, as a set
Stored == {disk.quotes[i] : i \in 1..Len(disk.quotes)}

\* Get(id) directly follows the successful Create that assigned id, and its
\* read goes through
GetAfterCreate ==
    /\ last.req.op = "create" /\ last.res.code = 201
    /\ Served /\ last'.req.op = "get" /\ last'.req.id = last.res.id
    /\ last'.io.rd = "ok"

----------------------------------------------------------------------------
(* C1 *)

----------------------------------------------------------------------------
(* C2 *)

\* C2: UpdateStatus with a status outside the enumeration answers 400 and
\* leaves the file, the record's status and updatedAt included, as it was.
C2_InvalidStatusChangesNothing ==
    [][(Served /\ last'.req.op = "patch" /\ last'.req.status \notin Statuses) =>
          /\ last'.res.code = 400
          /\ disk' = disk]_vars

\* archived was refused for a record that is in the file
C2_Witness ==
    /\ last.req.op = "patch" /\ last.req.status = "archived"
    /\ last.res.code = 400
    /\ \E q \in Stored : q.id = last.req.id /\ q.status \in Statuses

----------------------------------------------------------------------------
(* C3 *)

\* C3: Delete of the id of a record of the file, the file accesses going
\* through, answers 200 and removes the record; a Delete of the same id that
\* directly follows a Delete answered 200 answers 404.
C3_DeleteTwice ==
    [][/\ (/\ Served /\ last'.req.op = "delete"
           /\ last'.io = Io("ok", "ok")
           /\ \E q \in Stored : q.id = last'.req.id)
          => (last'.res.code = 200 /\ \A i \in 1..Len(disk'.quotes) :
                                          disk'.quotes[i].id # last'.req.id)
       /\ (/\ last.req.op = "delete" /\ last.res.code = 200
           /\ Served /\ last'.req.op = "delete" /\ last'.req.id = last.req.id)
          => last'.res.code = 404]_vars

\* the second Delete of an id was answered 404 and did not touch the file
C3_Witness ==
    /\ last.req.op = "delete" /\ last.res.code = 404
    /\ last.io = Io("ok", "none")
    /\ mail[last.req.id] # "none"
    /\ Len(disk.quotes) = 1

----------------------------------------------------------------------------
(* C4 *)

\* the record passes the filters: a filter that is not given, or is all,
\* passes every record
Matches(q, status, projectType) ==
    /\ status \in {NoParam, "all"} \/ q.status = status
    /\ projectType \in {Absent, pt_all} \/ q.projectType = projectType

\* res holds exactly the records of quotes that pass the filters, each once,
\* and total is their number
ExactlyMatching(res, quotes, status, projectType) ==
    LET want == {i \in 1..Len(quotes) : Matches(quotes[i], status, projectType)}
    IN  /\ res.code = 200
        /\ Len(res.data) = Cardinality(want)
        /\ {res.data[k] : k \in 1..Len(res.data)} = {quotes[i] : i \in want}
        /\ res.total = Len(res.data)

FilterStatuses == {NoParam, "all", "new", "reviewed", "archived"}
FilterTypes == {Absent, pt_all, pt_website, pt_webapp, pt_mobile}
Sorts == {<<NoParam, NoParam>>, <<"updatedAt", "asc">>, <<"bogus", "desc">>}

\* C4: for every state of the file and every pair of filters, List returns
\* exactly the records that pass both filters, and total is their number;
\* so does every List the server has answered from a file it could read.
C4_ListReturnsMatching ==
    /\ \A status \in FilterStatuses, projectType \in FilterTypes, s \in Sorts :
          ExactlyMatching(listOf(readQuotes(TRUE), status, projectType, s[1], s[2]),
                          readQuotes(TRUE), status, projectType)
    /\ (last.req.op = "list" /\ last.io.rd = "ok") =>
          ExactlyMatching(last.res, disk.quotes, last.req.status,
                          last.req.projectType)

\* List with status = new returned one of the two records of a file that
\* holds a new and a reviewed record
C4_Witness ==
    /\ last.req.op = "list" /\ last.req.status = "new" /\ last.io.rd = "ok"
    /\ last.res.total = 1
    /\ {q.status : q \in Stored} = {"new", "reviewed"}

----------------------------------------------------------------------------
(* C5 *)

SumOfBuckets(s) ==
    s.new + s.reviewed + s.contacted + s.quoted + s.accepted + s.rejected

\* C5: in every state of the file, total of Stats is the sum of its six
\* counts and the number of records List returns without filters; so are
\* the numbers of every Stats the server has answered.
C5_StatsTotal ==
    /\ LET s == statsOf(readQuotes(TRUE)).data
           l == listOf(readQuotes(TRUE), NoParam, Absent, NoParam, NoParam)
       IN  /\ s.total = SumOfBuckets(s)
           /\ s.total = Len(l.data)
           /\ s.total = l.total
    /\ last.req.op = "stats" =>
          /\ last.res.data.total = SumOfBuckets(last.res.data)
          /\ last.io.rd = "ok" => last.res.data.total = Len(disk.quotes)

\* Stats counted two records, one new and one reviewed
C5_Witness ==
    /\ last.req.op = "stats"
    /\ last.res.data.total = 2
    /\ last.res.data.new = 1 /\ last.res.data.reviewed = 1

----------------------------------------------------------------------------
(* C6 *)

\* the step serves a submission of a source the limiters keep a count for
Submission == Served /\ last'.req.op = "create" /\ last'.req.src \in Tracked

\* the step creates no record: the file, the identifiers and the deliveries
\* stay as they were
NothingCreated == disk' = disk /\ nextId' = nextId /\ mail' = mail

\* C6 as stated: of the submissions a source sends within one window of
\* quoteLimiter, the first five are not answered 429 and the sixth is, and
\* creates no record.
C6_SixthSubmissionLimited ==
    [][Submission =>
          LET sent == window[last'.req.src].n
          IN  /\ sent < QuoteLimiterMax => last'.res.code # 429
              /\ sent = QuoteLimiterMax =>
                    (last'.res.code = 429 /\ NothingCreated)]_vars

\* C6 as amended: each of the first five submissions of the window is not
\* answered 429 when the source has sent fewer than 100 requests since the
\* window of limiter began; the sixth and every later one is answered 429 and
\* creates no record when limiter refused none of the submissions before it.
\* Whether the earlier submissions passed validation plays no part.
C6_SixthLimitedUnlessBlanketRefused ==
    [][Submission =>
          LET src == last'.req.src
              sent == window[src].n
          IN  /\ (sent < QuoteLimiterMax /\ hits[src] < LimiterMax) =>
                    last'.res.code # 429
              /\ (sent >= QuoteLimiterMax /\ ~window[src].refused) =>
                    (last'.res.code = 429 /\ NothingCreated)]_vars

\* the sixth submission of the window, a valid one, was refused by
\* quoteLimiter while an identifier was left; of the five before it one was
\* stored and four were not
C6_Witness ==
    /\ last.req.op = "create" /\ last.req.src \in Tracked
    /\ last.req.body = JaneBody
    /\ last.res.code = 429 /\ last.res.by = "quoteLimiter"
    /\ window[last.req.src] = [n |-> QuoteLimiterMax + 1, refused |-> FALSE]
    /\ nextId \in Ids
    /\ Len(disk.quotes) = 1

----------------------------------------------------------------------------
(* C7 *)

\* the collection a read that goes through sees
Seen == readQuotes(TRUE)

\* C7: a Create, UpdateStatus or Delete whose write fails answers 500, and
\* the collection a later read sees is the collection before the call.
C7_FailedWriteChangesNothing ==
    [][(Served /\ last'.io.wr \in {"refused", "partial"}) =>
          /\ last'.res.code = 500
          /\ Seen' = Seen]_vars

----------------------------------------------------------------------------
(* C8 *)

\* C8: a Create whose write went through is answered 201 with the id while
\* the delivery it started is still pending, the record being in the file;
\* a delivery that ends, sent or failed, changes neither the file nor the
\* response.
C8_NotifierNeverAffectsCreate ==
    [][/\ (Served /\ last'.req.op = "create" /\ last'.io.wr = "ok") =>
             /\ last'.res.code = 201
             /\ mail'[last'.res.id] = "pending"
             /\ \E i \in 1..Len(disk'.quotes) : disk'.quotes[i].id = last'.res.id
       /\ \A id \in Ids :
             (mail[id] = "pending" /\ mail'[id] \in {"sent", "failed"}) =>
                (disk' = disk /\ last' = last)]_vars

\* the delivery for the record Create was just answered for has failed, and
\* the record is in the file
C8_Witness ==
    /\ last.req.op = "create" /\ last.res.code = 201
    /\ mail[last.res.id] = "failed"
    /\ \E q \in Stored : q.id = last.res.id

----------------------------------------------------------------------------
(* The field rules, stated apart from the validation chain.                *)

\* the value of a field with the white space around it removed
Trimmed(f, body) == trim(ToStr(body[f]))

\* the rule of one field as the specification lists it: the length bounds, the
\* enumerations, a well-formed address and a plausible phone number
StatedRule(f, body) ==
    LET v == Trimmed(f, body)
    IN  CASE f = "name" -> Len(v) >= 2 /\ Len(v) <= 100
          [] f = "email" -> isEmail(v)
          [] f = "phone" -> isMobilePhone(v)
          [] f = "company" -> body[f] = Absent \/ Len(v) <= 100
          [] f = "projectType" ->
               v \in {pt_website, pt_ecommerce, pt_webapp, pt_mobile, pt_other}
          [] f = "budget" ->
               v \in {bg_under5k, bg_5k10k, bg_10k25k, bg_25k50k, bg_over50k}
          [] f = "timeline" ->
               v \in {tl_asap, tl_1month, tl_23months, tl_36months, tl_flexible}
          [] f = "description" -> Len(v) >= 10 /\ Len(v) <= 1000

\* the rule of one field as the server applies it: a name is, besides, made
\* of letters and white space only
FieldOk(f, body) ==
    /\ StatedRule(f, body)
    /\ f = "name" =>
          \A i \in 1..Len(Trimmed(f, body)) : Trimmed(f, body)[i] \in Letter \cup Space

Offending(body) == {f \in DOMAIN body : ~FieldOk(f, body)}

----------------------------------------------------------------------------
(* C9 *)

\* C9: a submission that breaks a field rule is answered 400 with a list of
\* errors that is not empty and names exactly the offending fields; the
\* handler makes no file access, the file and the deliveries stay as they
\* were and no identifier is used.
C9_InvalidSubmissionRejected ==
    [][(Served /\ last'.req.op = "create" /\ Offending(last'.req.body) # {}) =>
          /\ last'.res.code = 400
          /\ last'.res.errors # <<>>
          /\ {last'.res.errors[i].field : i \in 1..Len(last'.res.errors)}
                = Offending(last'.req.body)
          /\ last'.io = NoIo
          /\ disk' = disk /\ mail' = mail /\ nextId' = nextId]_vars

\* the description of 5 characters was refused, by name, while the file
\* held a record
C9_Witness ==
    /\ last.req.op = "create" /\ last.req.body.description = Short5
    /\ last.res.code = 400
    /\ {last.res.errors[i].field : i \in 1..Len(last.res.errors)} = {"description"}
    /\ Len(disk.quotes) >= 1

----------------------------------------------------------------------------
(* C10 *)

\* the step serves a submission that no limiter refuses
Validated == Served /\ last'.req.op = "create" /\ last'.res.code # 429

\* C10 as stated: a submission is accepted exactly when every listed field
\* rule holds (lengths of name, company and description, the three
\* enumerations, a well-formed address, a plausible phone number).
C10_AcceptedIffStatedRules ==
    [][Validated =>
          (last'.res.code # 400 <=>
              \A f \in DOMAIN last'.req.body : StatedRule(f, last'.req.body))]_vars

\* C10 as amended: a submission is accepted, and answered 201 when the file
\* accesses go through, exactly when every listed field rule holds of the
\* values with the white space around them removed and the name is made of
\* letters and white space only; the lengths 2, 100, 10 and 1000 are accepted.
C10_AcceptedIffFieldRules ==
    [][Validated =>
          /\ last'.res.code \in {201, 400}
          /\ last'.res.code = 201 <=>
                \A f \in DOMAIN last'.req.body : FieldOk(f, last'.req.body)]_vars

\* the submission whose name, company and description are of the greatest
\* lengths allowed was accepted and stored
C10_Witness ==
    /\ last.req.op = "create" /\ last.res.code = 201
    /\ Len(last.req.body.name) = 100
    /\ Len(last.req.body.company) = 100
    /\ Len(last.req.body.description) = 1000
    /\ Len(disk.quotes) = 1 /\ Len(disk.quotes[1].description) = 1000

----------------------------------------------------------------------------
(* C11 *)

\* the positions of the record with this id in the file
PositionsOf(id) == {k \in 1..Len(disk.quotes) : disk.quotes[k].id = id}

\* C11: an UpdateStatus with a status of the enumeration whose file accesses
\* go through, whatever the status of the record: for an id of the file it
\* answers 200 with the updated record, and the file is the file before with
\* that record's status set and its updatedAt set to the time of the call,
\* every other field, every other record and the order being as they were;
\* for an id not in the file it answers 404 and the file is as it was.
C11_UpdateStatusFrame ==
    [][(/\ Served /\ last'.req.op = "patch" /\ last'.req.status \in Statuses
        /\ last'.io.rd = "ok" /\ last'.io.wr \in {"ok", "none"}) =>
          IF PositionsOf(last'.req.id) = {}
          THEN last'.res.code = 404 /\ disk' = disk
          ELSE /\ last'.res.code = 200
               /\ Len(disk'.quotes) = Len(disk.quotes)
               /\ \A k \in 1..Len(disk.quotes) :
                     disk'.quotes[k] =
                        IF k \in PositionsOf(last'.req.id)
                        THEN [disk.quotes[k] EXCEPT !.status = last'.req.status,
                                                    !.updatedAt = now']
                        ELSE disk.quotes[k]
               /\ \E k \in PositionsOf(last'.req.id) :
                     last'.res.data = disk'.quotes[k]]_vars

\* the second of two records was moved to accepted after the clock advanced:
\* its updatedAt is later than its createdAt, and the first record is still new
C11_Witness ==
    /\ last.req.op = "patch" /\ last.res.code = 200
    /\ Len(disk.quotes) = 2
    /\ disk.quotes[1].status = "new"
    /\ disk.quotes[2] = last.res.data
    /\ last.res.data.status = "accepted"
    /\ last.res.data.createdAt < last.res.data.updatedAt

----------------------------------------------------------------------------
(* C12 *)

\* the step is the admin's delete-all, confirmed
DeleteAllConfirmed ==
    /\ Served /\ "from" \in DOMAIN last'.req
    /\ last'.req.from = "confirmDeleteAll"

\* C12: once the admin's delete-all is confirmed the collection of the
\* server is empty: List without filters returns no record and the total of
\* Stats is 0.
C12_DeleteAllClearsCollection ==
    [][DeleteAllConfirmed =>
          /\ disk'.quotes = <<>>
          /\ listOf(disk'.quotes, NoParam, Absent, NoParam, NoParam).total = 0
          /\ last'.res.data.total = 0]_vars

----------------------------------------------------------------------------
(* C13 *)

\* C13: a List or a Stats during which the read of the collection fails is
\* answered 500, never 200 with an empty list or zero counts.
C13_FailedReadAnswers500 ==
    [][(/\ Served
        /\ last'.req.op \in {"list", "stats"}
        /\ last'.io.rd = "failed") => last'.res.code = 500]_vars

----------------------------------------------------------------------------
(* C14 *)

\* C14: no two records of the collection have the same id.
C14_IdsUnique ==
    \A i, j \in 1..Len(disk.quotes) :
        disk.quotes[i].id = disk.quotes[j].id => i = j

\* two records, made by two Creates, are in the collection
C14_Witness ==
    /\ Len(disk.quotes) = 2
    /\ disk.quotes[1].id = 1 /\ disk.quotes[2].id = 2

----------------------------------------------------------------------------
(* C15 *)

\* C15: the status of every record is one of the six statuses, whatever the
\* requests carried.
C15_StatusInEnum == \A q \in Stored : q.status \in Statuses

\* an update to a status outside the six was refused and the record it named
\* kept the status an earlier update gave it
C15_Witness ==
    /\ last.req.op = "patch" /\ last.req.status \notin Statuses
    /\ last.res.code = 400
    /\ \E q \in Stored : q.id = last.req.id /\ q.status = "reviewed"

----------------------------------------------------------------------------
(* C16 *)

\* C16: as long as a record is in the collection its id, its createdAt and
\* its eight submitted fields stay what they were; its status and its
\* updatedAt change only in an UpdateStatus of its id that is answered 200.
C16_OnlyUpdateStatusChangesRecord ==
    [][\A i \in 1..Len(disk.quotes) : \A j \in 1..Len(disk'.quotes) :
          LET q == disk.quotes[i]
              r == disk'.quotes[j]
          IN  r.id = q.id =>
                /\ Submitted(r) = Submitted(q)
                /\ r.createdAt = q.createdAt
                /\ (r.status # q.status \/ r.updatedAt # q.updatedAt) =>
                      /\ Served
                      /\ last'.req.op = "patch" /\ last'.req.id = q.id
                      /\ last'.res.code = 200]_vars

\* an UpdateStatus was answered 200 after the clock moved: the record has the
\* new status and a later updatedAt, and still the fields it was created with
C16_Witness ==
    /\ last.req.op = "patch" /\ last.res.code = 200
    /\ \E q \in Stored :
          /\ q.id = last.req.id
          /\ q.status = "reviewed"
          /\ q.createdAt = 0 /\ q.updatedAt = 1
          /\ Submitted(q) = Normalized(PaddedBody)

----------------------------------------------------------------------------
(* C17 *)

\* the timestamp a List sorts by, and its direction
SortField(sortBy) == IF sortBy = NoParam THEN "createdAt" ELSE sortBy
SortOrder(order) == IF order = NoParam THEN "desc" ELSE order

\* data is ordered by the field in the direction
Ordered(data, field, direction) ==
    \A i, j \in 1..Len(data) :
        i < j => IF direction = "desc"
                 THEN dateOf(data[i], field) >= dateOf(data[j], field)
                 ELSE dateOf(data[i], field) <= dateOf(data[j], field)

SortFields == {NoParam, "createdAt", "updatedAt"}
SortOrders == {NoParam, "asc", "desc"}

\* C17: for every state of the file, List without sorting parameters returns
\* the records by createdAt, newest first, and List with sortBy a timestamp
\* field and order asc or desc returns them by that field in that direction;
\* so is every List the server has answered with such parameters.
C17_ListOrdered ==
    /\ \A sortBy \in SortFields, order \in SortOrders :
          Ordered(listOf(readQuotes(TRUE), NoParam, Absent, sortBy, order).data,
                  SortField(sortBy), SortOrder(order))
    /\ (/\ last.req.op = "list" /\ last.res.code = 200
        /\ last.req.sortBy \in SortFields /\ last.req.order \in SortOrders) =>
          Ordered(last.res.data, SortField(last.req.sortBy),
                  SortOrder(last.req.order))

\* List without parameters returned the later record first, the file holding
\* the earlier one first
C17_Witness ==
    /\ last.req.op = "list" /\ last.req.sortBy = NoParam /\ last.res.code = 200
    /\ Len(last.res.data) = 2
    /\ last.res.data[1].createdAt = 1 /\ last.res.data[2].createdAt = 0
    /\ disk.quotes = <<last.res.data[2], last.res.data[1]>>

----------------------------------------------------------------------------
(* C18 *)

\* the ids of the records of a collection
IdsOf(quotes) == {quotes[i].id : i \in 1..Len(quotes)}

\* C18: a record stays in the collection until a Delete of its own id is
\* answered 200, also when the read of the store fails during the request;
\* a Create answered 201 leaves the collection it found with the new record
\* appended.  Steps whose write fails are left aside.
C18_RecordStaysUntilDeleted ==
    [][(Served /\ last'.io.wr \in {"ok", "none"}) =>
          /\ \A id \in IdsOf(disk.quotes) :
                \/ id \in IdsOf(disk'.quotes)
                \/ /\ last'.req.op = "delete" /\ last'.req.id = id
                   /\ last'.res.code = 200
          /\ (last'.req.op = "create" /\ last'.res.code = 201) =>
                /\ Len(disk'.quotes) = Len(disk.quotes) + 1
                /\ SubSeq(disk'.quotes, 1, Len(disk.quotes)) = disk.quotes]_vars

----------------------------------------------------------------------------
(* C19 *)

\* the request before this step was an UpdateStatus answered 200: the first
\* writer
FirstWriter == last.req.op = "patch" /\ last.res.code = 200

\* the step is an UpdateStatus of another record answered 200: the second
\* writer
SecondWriter ==
    /\ Served
    /\ last'.req.op = "patch" /\ last'.res.code = 200
    /\ last'.req.id # last.req.id

LostUpdate ==
    /\ NextStatus
    /\ SecondWriter
    /\ \E k \in 1..Len(disk'.quotes) :
          /\ disk'.quotes[k].id = last.req.id
          /\ disk'.quotes[k].status # last.req.status

----------------------------------------------------------------------------
(* C20 *)

\* C20: the record a Create answered 201 has persisted has createdAt equal
\* to updatedAt, whatever the clock did while the handler ran.
C20_CreatedAtEqualsUpdatedAt ==
    [][(Served /\ last'.req.op = "create" /\ last'.res.code = 201) =>
          \A k \in 1..Len(disk'.quotes) :
              disk'.quotes[k].id = last'.res.id =>
                  disk'.quotes[k].createdAt = disk'.quotes[k].updatedAt]_vars

----------------------------------------------------------------------------
(* C21 *)

\* the records of quotes that pass both filters, in the order of quotes
InFileOrder(quotes, status, projectType) ==
    SelectSeq(quotes, LAMBDA q : Matches(q, status, projectType))

UnknownFields == {"bogus", "priority"}

\* C21: for every state of the file, List with a sortBy that names no field
\* of the records returns the matching records in the order of the file, for
\* order asc and for order desc; so does every List the server has answered
\* with such a sortBy.
C21_UnknownSortKeepsFileOrder ==
    /\ \A status \in FilterStatuses, projectType \in FilterTypes,
          sortBy \in UnknownFields, order \in {"asc", "desc"} :
          listOf(readQuotes(TRUE), status, projectType, sortBy, order).data
              = InFileOrder(readQuotes(TRUE), status, projectType)
    /\ (/\ last.req.op = "list" /\ last.res.code = 200
        /\ last.req.sortBy \in UnknownFields) =>
          last.res.data = InFileOrder(disk.quotes, last.req.status,
                                      last.req.projectType)

\* List with an unknown sortBy and order desc returned the earlier record
\* first, as the file holds them
C21_Witness ==
    /\ last.req.op = "list" /\ last.req.sortBy = "bogus"
    /\ last.req.order = "desc" /\ last.res.code = 200
    /\ Len(last.res.data) = 2
    /\ last.res.data[1].createdAt = 0 /\ last.res.data[2].createdAt = 1
    /\ last.res.data = disk.quotes

----------------------------------------------------------------------------
(* C22 *)

\* the step hands a notification to the transporter for record id
Attempted(id) == mail[id] # "pending" /\ mail'[id] = "pending"

\* C22: a Create answered 201 starts exactly one notification, that of the
\* record it has written, and starts it after the write went through; a
\* Create refused by validation, by a limiter or by the write starts none,
\* and no other step starts one; a notification that has ended, sent or
\* failed, is never started again.
C22_NotifiedOncePerCreate ==
    [][/\ \A id \in Ids :
             Attempted(id) =>
                /\ Served /\ last'.req.op = "create"
                /\ last'.res.code = 201 /\ last'.res.id = id
                /\ last'.io.wr = "ok"
                /\ mail[id] = "none"
                /\ \E k \in 1..Len(disk'.quotes) : disk'.quotes[k].id = id
       /\ (Served /\ last'.req.op = "create") =>
             IF last'.res.code = 201
             THEN /\ Attempted(last'.res.id)
                  /\ \A id \in Ids \ {last'.res.id} : mail'[id] = mail[id]
             ELSE /\ last'.res.code \in {400, 429, 500}
                  /\ mail' = mail
       /\ \A id \in Ids :
             mail[id] \in {"sent", "failed"} => mail'[id] = mail[id]]_vars

\* the first notification failed and stayed failed, the second was sent, and
\* the source is now refused by the limiter of the submissions
C22_Witness ==
    /\ mail = <<"failed", "sent">>
    /\ last.req.op = "create" /\ last.res.code = 429

----------------------------------------------------------------------------
(* C23 *)

\* C23: a status chosen in the selector of a row of the admin page, the
\* server holding the record of the row, is not answered 400.
C23_SelectorStatusesAccepted ==
    [][(/\ Served /\ "from" \in DOMAIN last'.req
        /\ last'.req.from = "updateStatus"
        /\ last'.req.id \in IdsOf(disk.quotes)) => last'.res.code # 400]_vars

----------------------------------------------------------------------------
(* C24 *)

\* the load that a refresh started is answered with the list
RefreshLoadReturns ==
    /\ panel.loading /\ ~panel'.loading
    /\ last'.res.code = 200

\* C24: when the refresh has reported its success, the table shows the
\* quotes that the load of this refresh returns.
C24_RefreshRendersLoadedQuotes ==
    [][(RefreshLoadReturns /\ panel'.alert = RefreshedAlert) =>
          panel'.table = last'.res.data]_vars

====
